---- MODULE Spec2Model ----
(***************************************************************************)
(* CDC latency monitor (scripts/cdc-monitor.py): the probe thread, the     *)
(* counts (reconciliation) thread and the main thread running the          *)
(* dashboard, all sharing one MonitorState guarded by state.lock.          *)
(*                                                                         *)
(* Every store call (connect, execute, commit, fetch) is an action whose   *)
(* outcome the environment chooses; while a thread's pc stands at such an  *)
(* action the call is in flight. Time inside a probe is counted in poll    *)
(* intervals since insert_time.                                            *)
(***************************************************************************)
EXTENDS Integers, Sequences, FiniteSets, TLC

\* ------------------------------------------------------------------ bounds
MaxProbes == 2      \* probes the probe thread may start
MaxPasses == 1      \* reconciliation passes the counts thread may start
TimeoutTicks == 2   \* the 30 s probe timeout, counted in poll intervals
MaxSamples == 102   \* successful probes of one table in SpecHistory
MaxFailedSamples == 1   \* failed probes of that table in SpecHistory
MaxRounds == 3      \* probes the probe thread may start in SpecProbeThread
MaxClock == 3       \* ticks the wall clock may advance in SpecCheckOnce
TicksPerMs == 2     \* resolution of time.time(): clock ticks in one millisecond
MaxListLen == 120   \* longest list the statistics functions are applied to
MaxRecords == 1     \* records a benchmark worker may try to insert

\* worker_insert_batch: the records of a batch, and the batches of a worker
\* in a run.
BatchSize == 1

MaxBatches == 2

\* run_burst_benchmark: its arguments bursts and records_per_burst.
Bursts == 3

RecordsPerBurst == 2

\* verify_cdc_sync: the polls that fit into its timeout.
VerifyPolls == 2

\* The row counts a COUNT(*) query of the sink may answer: the sink has caught
\* up with the source or lags behind it.
RowCounts == {980, 1000}

\* The row counts a COUNT(*) query of the source may answer: the source tables
\* hold still while the monitor runs.
SourceCounts == {1000}

\* --------------------------------------------------------------- constants
\* TABLES of the monitor, in source order.
AllTables == <<"orders", "customers", "products", "order_items", "inventory_movements">>

\* The tables the model monitors: one with statement branches, and the one without.
Monitored == {"orders", "order_items"}

IsMonitored(t) == t \in Monitored

TABLES == SelectSeq(AllTables, IsMonitored)

TableSet == {TABLES[i] : i \in 1..Len(TABLES)}

\* probe_latency dispatches the INSERT on the table name; order_items has no branch.
HasInsert(t) == t \in {"orders", "customers", "products", "inventory_movements"}

\* the sink lookup of the poll loop, same dispatch.
HasLookup(t) == t \in {"orders", "customers", "products", "inventory_movements"}

\* cleanup_probe's DELETE, same dispatch.
HasDelete(t) == t \in {"orders", "customers", "products", "inventory_movements"}

\* probe_latency's "return None"; a measured latency is >= 0.
None == -1

\* the sentinel the probe thread stores in last_latency_ms for a failed probe.
FailedLatency == -1

\* deque(maxlen=100)
HistoryMaxLen == 100

\* A full history that refuses the new sample instead of dropping its oldest.
DequeAppendDropsNewest(h, x) ==
    IF Len(h) >= HistoryMaxLen THEN h ELSE Append(h, x)

\* deque.append with maxlen: the oldest sample is dropped when full.
DequeAppend(h, x) ==
    IF Len(h) >= HistoryMaxLen THEN Append(Tail(h), x) ELSE Append(h, x)

\* TableStats() as constructed.
TableStats ==
    [mysql_count |-> 0, starrocks_count |-> 0, lag |-> 0,
     last_latency_ms |-> 0, latency_history |-> <<>>]

\* sum(self.latency_history), over the first n samples
RECURSIVE SumTo(_, _)
SumTo(h, n) == IF n = 0 THEN 0 ELSE h[n] + SumTo(h, n - 1)

\* sorted(self.latency_history)[i], i counted from 0: the sample with at most i
\* samples below it and more than i samples not above it.
SortedAt(h, i) ==
    CHOOSE x \in {h[j] : j \in DOMAIN h} :
        /\ Cardinality({j \in DOMAIN h : h[j] < x}) <= i
        /\ Cardinality({j \in DOMAIN h : h[j] <= x}) > i

\* An empty history answers the sentinel of a failed probe instead of 0.
avg_latencySentinel(ts) ==
    IF ts.latency_history = <<>>
    THEN FailedLatency
    ELSE <<SumTo(ts.latency_history, Len(ts.latency_history)), Len(ts.latency_history)>>

\* TableStats.avg_latency: 0 for an empty history, else sum / len, the float
\* quotient kept as the exact fraction <<sum, len>>.
avg_latency(ts) ==
    IF ts.latency_history = <<>>
    THEN 0
    ELSE <<SumTo(ts.latency_history, Len(ts.latency_history)), Len(ts.latency_history)>>

\* TableStats.min_latency
min_latency(ts) ==
    IF ts.latency_history = <<>> THEN 0 ELSE SortedAt(ts.latency_history, 0)

\* TableStats.max_latency
max_latency(ts) ==
    IF ts.latency_history = <<>>
    THEN 0
    ELSE SortedAt(ts.latency_history, Len(ts.latency_history) - 1)

\* The nearest-rank percentile: the sample at index ceil(len * 0.95) - 1.
p95_latencyNearestRank(ts) ==
    IF ts.latency_history = <<>>
    THEN 0
    ELSE LET n == Len(ts.latency_history)
             idx == ((n * 95 + 99) \div 100) - 1
         IN  SortedAt(ts.latency_history, idx)

\* TableStats.p95_latency: idx = int(len * 0.95), which for every length a
\* history can have is (len * 95) \div 100; sorted_lat[min(idx, len - 1)]
p95_latency(ts) ==
    IF ts.latency_history = <<>>
    THEN 0
    ELSE LET n == Len(ts.latency_history)
             idx == (n * 95) \div 100
         IN  SortedAt(ts.latency_history, IF idx < n - 1 THEN idx ELSE n - 1)

\* Stats() of the benchmark as constructed (the two timestamps left out).
Stats ==
    [inserts |-> [t \in TableSet |-> 0], errors |-> [t \in TableSet |-> 0],
     latencies |-> <<>>]

\* Stats.avg_latency of the benchmark
Stats_avg_latency(st) ==
    IF st.latencies = <<>>
    THEN 0
    ELSE <<SumTo(st.latencies, Len(st.latencies)), Len(st.latencies)>>

\* Stats.p99_latency of the benchmark: idx = int(len * 0.99), which is
\* (len * 99) \div 100 for every length up to two million;
\* sorted_lat[min(idx, len - 1)]
Stats_p99_latency(st) ==
    IF st.latencies = <<>>
    THEN 0
    ELSE LET n == Len(st.latencies)
             idx == (n * 99) \div 100
         IN  SortedAt(st.latencies, IF idx < n - 1 THEN idx ELSE n - 1)

\* ------------------------------------------------------------------- state
VARIABLES
    \* MonitorState
    running, tables, total_probes, successful_probes, failed_probes,
    last_update, error_message, lock,
    \* latency_probe_thread / probe_latency
    probePc, table_idx, table, elapsed, latency, outcome, committed, cleanups,
    probesReturned,
    \* the current probe as the stores see it: whether the sink shows the marker
    \* and since when (after insert_time), whether it already did so more than a
    \* poll interval before the first lookup, whether a lookup raised, whether
    \* cleanup_probe raised
    visible, visibleAt, lateStart, lookupFailed, cleanupFailed,
    \* the store connections probe_latency holds in its locals, opened and not
    \* closed
    probeConns,
    \* on entry to the poll loop: how long after insert_time the commit of the
    \* marker row returned
    commitAt,
    \* counts_update_thread / get_table_counts; before and failedTable remember,
    \* for the table get_table_counts handled last, what its counts were when its
    \* turn began and whether one of its two queries raised; answered is the last
    \* table of the pass both of whose queries returned, with the two counts
    countsPc, ti, passes, before, failedTable, answered,
    \* the store connections get_table_counts holds in its locals, opened and
    \* not closed
    countsConns,
    \* main: display_dashboard and shutdown
    mainPc, hdrTorn,
    \* main in check mode (check_once): the wall clock, in ticks; the markers of
    \* the probes started so far; the results dictionary, in insertion order
    now, markers, results,
    \* the statistics functions on their own: the list of samples they are
    \* applied to, and what they returned
    samples, returned,
    \* the benchmark (cdc-benchmark.py, per-table mode): the stop event, the
    \* shared Stats and who holds its lock; per worker its position, its loop
    \* counter and the value it read for "+= 1"; the rows committed to each
    \* source table; the calls of record_insert and record_error that have
    \* written their count, per table
    stop_event, stats, statsLock, workerPc, count, workerRead, rowsCommitted,
    insertCalls, errorCalls,
    \* the benchmark, parallel mode (worker_insert_batch), per worker: batch_num,
    \* the records of the current batch that are complete, the table whose
    \* insert is next (its place in the list), and its connection
    batch_num, batchRec, batchTab, workerConn,
    \* the benchmark, burst mode (run_burst_benchmark): its position, the loop
    \* variables burst and i, the table whose insert is next, the rows of the
    \* open transaction per table, and its connection
    burstPc, burst, burstRec, burstTab, pending, burstConn,
    \* verify_cdc_sync: its position, its locals mysql_counts, sr_counts and
    \* synced, the polls made so far, and what it returns
    verifyPc, mysql_counts, sr_counts, synced, polls, result

monitorVars ==
    <<running, tables, total_probes, successful_probes, failed_probes,
      last_update, error_message>>

pollGhosts == <<visible, visibleAt, lateStart, lookupFailed>>

probeVars == <<probePc, table_idx, table, elapsed, latency, outcome, committed,
               cleanups, probesReturned, pollGhosts, cleanupFailed, probeConns,
               commitAt>>

countsVars == <<countsPc, ti, passes, before, failedTable, answered, countsConns>>

checkVars == <<now, markers, results>>

mainVars == <<mainPc, hdrTorn, checkVars>>

\* MonitorState without the running flag: what the background threads write.
statsVars ==
    <<tables, total_probes, successful_probes, failed_probes, last_update,
      error_message>>

fnVars == <<samples, returned>>

benchVars ==
    <<stop_event, stats, statsLock, workerPc, count, workerRead, rowsCommitted,
      insertCalls, errorCalls>>

parVars == <<batch_num, batchRec, batchTab, workerConn>>

burstVars == <<burstPc, burst, burstRec, burstTab, pending, burstConn>>

verifyVars == <<verifyPc, mysql_counts, sr_counts, synced, polls, result>>

\* The other modes of the benchmark and its verification step.
modeVars == <<parVars, burstVars, verifyVars>>

\* What is not state of the monitor's threads.
otherVars == <<fnVars, benchVars, modeVars>>

vars == <<monitorVars, lock, probeVars, countsVars, mainVars, otherVars>>

\* The counts of a table as one reconciliation pass sees them.
Counts(ts) == <<ts.mysql_count, ts.starrocks_count, ts.lag>>

\* No table of the current pass has had both of its queries answered.
NoAnswer == <<"none", 0, 0>>

InitMonitor ==
    /\ running = TRUE
    /\ tables = [t \in TableSet |-> TableStats]
    /\ total_probes = 0
    /\ successful_probes = 0
    /\ failed_probes = 0
    /\ last_update = 0
    /\ error_message = ""
    /\ lock = "none"
    /\ probePc = "top"
    /\ table_idx = 0
    /\ table = TABLES[1]
    /\ elapsed = 0
    /\ latency = None
    /\ outcome = "none"
    /\ committed = FALSE
    /\ cleanups = 0
    /\ probesReturned = 0
    /\ visible = FALSE
    /\ visibleAt = 0
    /\ lateStart = FALSE
    /\ lookupFailed = FALSE
    /\ cleanupFailed = FALSE
    /\ probeConns = {}
    /\ commitAt = 0
    /\ countsPc = "top"
    /\ ti = 1
    /\ passes = 0
    /\ before = Counts(TableStats)
    /\ failedTable = "none"
    /\ answered = NoAnswer
    /\ countsConns = {}
    /\ mainPc = "display"
    /\ hdrTorn = FALSE
    /\ now = 0
    /\ markers = <<>>
    /\ results = <<>>

\* workers_per_table of run_per_table_benchmark (-w).
workers_per_table == 2

\* The workers, numbered as worker_id + 1, and the table each is dedicated to.
Workers == 1..(workers_per_table * Len(TABLES))

WorkerTable(w) == TABLES[((w - 1) \div workers_per_table) + 1]

\* No worker holds the lock of Stats.
NoWorker == 0

\* The benchmark before run_per_table_benchmark has submitted its workers.
InitBenchmark ==
    /\ stop_event = FALSE
    /\ stats = Stats
    /\ statsLock = NoWorker
    /\ workerPc = [w \in Workers |-> "start"]
    /\ count = [w \in Workers |-> 0]
    /\ workerRead = [w \in Workers |-> 0]
    /\ rowsCommitted = [t \in TableSet |-> 0]
    /\ insertCalls = [t \in TableSet |-> 0]
    /\ errorCalls = [t \in TableSet |-> 0]

\* No verification has run: the value of verify_cdc_sync's locals before it
\* assigns them.
Unset == "unset"

InitModes ==
    /\ batch_num = [w \in Workers |-> 0]
    /\ batchRec = [w \in Workers |-> 0]
    /\ batchTab = [w \in Workers |-> 1]
    /\ workerConn = [w \in Workers |-> "none"]
    /\ burstPc = "start"
    /\ burst = 0
    /\ burstRec = 0
    /\ burstTab = 1
    /\ pending = [t \in TableSet |-> 0]
    /\ burstConn = "none"
    /\ verifyPc = "start"
    /\ mysql_counts = Unset
    /\ sr_counts = Unset
    /\ synced = FALSE
    /\ polls = 0
    /\ result = Unset

Init ==
    /\ InitMonitor
    /\ samples = <<>>
    /\ returned = <<>>
    /\ InitBenchmark
    /\ InitModes

\* The process is alive: daemon threads run only until main has returned.
Alive == mainPc # "exited"

\* --------------------------------------------------- latency_probe_thread
\* The loop retries the table of a failed probe: the index follows the
\* successful probes only.
ProbeTopRetriesFailed(n) ==
    /\ Alive
    /\ probePc = "top"
    /\ IF running
       THEN /\ table_idx < n
            /\ table' = TABLES[(successful_probes % Len(TABLES)) + 1]
            /\ table_idx' = table_idx + 1
            /\ elapsed' = 0
            /\ latency' = None
            /\ outcome' = "none"
            /\ committed' = FALSE
            /\ cleanups' = 0
            /\ probePc' = "insert"
       ELSE /\ probePc' = "done"
            /\ UNCHANGED <<table, table_idx, elapsed, latency, outcome, committed,
                           cleanups>>
    /\ UNCHANGED <<monitorVars, lock, probesReturned, pollGhosts, cleanupFailed,
                   countsVars, mainVars, probeConns, otherVars, commitAt>>

\* The loop does not read the flag: while True.
ProbeTopIgnoresFlag(n) ==
    /\ Alive
    /\ probePc = "top"
    /\ table_idx < n
    /\ table' = TABLES[(table_idx % Len(TABLES)) + 1]
    /\ table_idx' = table_idx + 1
    /\ elapsed' = 0
    /\ latency' = None
    /\ outcome' = "none"
    /\ committed' = FALSE
    /\ cleanups' = 0
    /\ probePc' = "insert"
    /\ UNCHANGED <<monitorVars, lock, probesReturned, pollGhosts, cleanupFailed,
                   countsVars, mainVars, probeConns, otherVars, commitAt>>

\* while state.running: table = tables[table_idx % len(tables)]; table_idx += 1
\* The run is cut after n iterations.
ProbeTopUpTo(n) ==
    /\ Alive
    /\ probePc = "top"
    /\ IF running
       THEN /\ table_idx < n
            /\ table' = TABLES[(table_idx % Len(TABLES)) + 1]
            /\ table_idx' = table_idx + 1
            /\ elapsed' = 0
            /\ latency' = None
            /\ outcome' = "none"
            /\ committed' = FALSE
            /\ cleanups' = 0
            /\ probePc' = "insert"
       ELSE /\ probePc' = "done"
            /\ UNCHANGED <<table, table_idx, elapsed, latency, outcome, committed,
                           cleanups>>
    /\ UNCHANGED <<monitorVars, lock, probesReturned, pollGhosts, cleanupFailed,
                   countsVars, mainVars, probeConns, otherVars, commitAt>>

\* The loop top of the probe thread beside the counts thread and the dashboard.
ProbeTop == ProbeTopUpTo(MaxProbes)

\* The poll loop is entered before the source transaction was committed.
ProbeInsertPollsFirst ==
    /\ Alive
    /\ probePc = "insert"
    /\ \/ \* source connect, INSERT or commit fails: nothing committed; when it
          \* was not the connect that failed, the source connection is open
          /\ outcome' = "source_failed"
          /\ probePc' = "except"
          /\ \E opened \in BOOLEAN :
                probeConns' = IF opened THEN {"source"} ELSE {}
          /\ UNCHANGED <<elapsed, committed, visible, visibleAt, lateStart, commitAt>>
       \/ \* committed and the source connection closed; the sink connection
          \* then fails
          /\ committed' = HasInsert(table)
          /\ outcome' = "sink_failed"
          /\ probePc' = "except"
          /\ probeConns' = {}
          /\ UNCHANGED <<elapsed, visible, visibleAt, lateStart, commitAt>>
       \/ \* sink connected, the commit still to come
          \E d \in 0..TimeoutTicks :
             /\ committed' = FALSE
             /\ commitAt' = 0
             /\ elapsed' = d
             /\ probePc' = "poll"
             /\ probeConns' = {"sink"}
             /\ UNCHANGED <<outcome, visible, visibleAt, lateStart>>
       \/ \* committed c after insert_time and sink connected, the row visible
          \* since v
          \E d \in 0..TimeoutTicks, v \in 0..TimeoutTicks, c \in 0..TimeoutTicks :
             /\ HasInsert(table)
             /\ c <= v
             /\ v <= d
             /\ committed' = TRUE
             /\ commitAt' = c
             /\ visible' = TRUE
             /\ visibleAt' = v
             /\ lateStart' = (v < d)
             /\ elapsed' = d
             /\ probePc' = "poll"
             /\ probeConns' = {"sink"}
             /\ UNCHANGED outcome
    /\ UNCHANGED <<monitorVars, lock, table_idx, table, latency, cleanups,
                   probesReturned, lookupFailed, cleanupFailed, countsVars, mainVars, otherVars>>

\* probe_latency up to the poll loop: source connect, insert_time, INSERT, commit,
\* close, sink connect. A failure of any of them raises into the except clause.
\* insert_time is read before the INSERT is executed: the commit returns c
\* poll intervals after it. By the time the sink is connected, d poll intervals
\* after insert_time, the pipeline may or may not have made the committed row
\* visible.
ProbeInsert ==
    /\ Alive
    /\ probePc = "insert"
    /\ \/ \* source connect, INSERT or commit fails: nothing committed; when it
          \* was not the connect that failed, the source connection is open
          /\ outcome' = "source_failed"
          /\ probePc' = "except"
          /\ \E opened \in BOOLEAN :
                probeConns' = IF opened THEN {"source"} ELSE {}
          /\ UNCHANGED <<elapsed, committed, visible, visibleAt, lateStart, commitAt>>
       \/ \* committed and the source connection closed; the sink connection
          \* then fails
          /\ committed' = HasInsert(table)
          /\ outcome' = "sink_failed"
          /\ probePc' = "except"
          /\ probeConns' = {}
          /\ UNCHANGED <<elapsed, visible, visibleAt, lateStart, commitAt>>
       \/ \* committed c after insert_time and sink connected, the row not
          \* visible yet
          \E d \in 0..TimeoutTicks, c \in 0..TimeoutTicks :
             /\ c <= d
             /\ committed' = HasInsert(table)
             /\ commitAt' = c
             /\ elapsed' = d
             /\ probePc' = "poll"
             /\ probeConns' = {"sink"}
             /\ UNCHANGED <<outcome, visible, visibleAt, lateStart>>
       \/ \* committed c after insert_time and sink connected, the row visible
          \* since v
          \E d \in 0..TimeoutTicks, v \in 0..TimeoutTicks, c \in 0..TimeoutTicks :
             /\ HasInsert(table)
             /\ c <= v
             /\ v <= d
             /\ committed' = TRUE
             /\ commitAt' = c
             /\ visible' = TRUE
             /\ visibleAt' = v
             /\ lateStart' = (v < d)
             /\ elapsed' = d
             /\ probePc' = "poll"
             /\ probeConns' = {"sink"}
             /\ UNCHANGED outcome
    /\ UNCHANGED <<monitorVars, lock, table_idx, table, latency, cleanups,
                   probesReturned, lookupFailed, cleanupFailed, countsVars, mainVars, otherVars>>

\* While the tick sleeps the pipeline may make a committed row visible.
Replicate ==
    IF committed /\ ~visible
    THEN \E b \in BOOLEAN :
            /\ visible' = b
            /\ visibleAt' = IF b THEN elapsed + 1 ELSE visibleAt
    ELSE UNCHANGED <<visible, visibleAt>>

\* The latency is taken only after the tick has slept.
PollFoundAfterSleep ==
    /\ HasLookup(table)
    /\ visible
    /\ latency' = elapsed + 1
    /\ outcome' = "found"
    /\ probePc' = "cleanup"
    /\ probeConns' = {}
    /\ UNCHANGED <<elapsed, pollGhosts>>

\* The lookup answers count > 0: latency_ms = (time.time() - insert_time) * 1000,
\* the sink connection is closed and the loop is left for cleanup_probe.
PollFound ==
    /\ HasLookup(table)
    /\ visible
    /\ latency' = elapsed
    /\ outcome' = "found"
    /\ probePc' = "cleanup"
    /\ probeConns' = {}
    /\ UNCHANGED <<elapsed, pollGhosts>>

\* The lookup answers count = 0: time.sleep(poll_interval)
PollNotYet ==
    /\ HasLookup(table)
    /\ ~visible
    /\ elapsed' = elapsed + 1
    /\ Replicate
    /\ UNCHANGED <<latency, outcome, probePc, lateStart, lookupFailed, probeConns>>

\* The lookup aborts the probe instead of being retried at the next tick.
PollRaisesAborts ==
    /\ lookupFailed' = TRUE
    /\ latency' = None
    /\ outcome' = "sink_failed"
    /\ probePc' = "except"
    /\ Replicate
    /\ UNCHANGED <<elapsed, lateStart, probeConns>>

\* The lookup raises, or fetchone() is called with no statement executed:
\* except Exception: pass; time.sleep(poll_interval)
PollRaises ==
    /\ lookupFailed' = TRUE
    /\ elapsed' = elapsed + 1
    /\ Replicate
    /\ UNCHANGED <<latency, outcome, probePc, lateStart, probeConns>>

\* The loop condition fails: the timeout has passed without the marker being seen.
PollTimeout ==
    /\ latency' = None
    /\ outcome' = "timeout"
    /\ probePc' = "cleanup"
    /\ visible' = FALSE
    /\ visibleAt' = 0
    /\ lateStart' = FALSE
    /\ probeConns' = {}
    /\ UNCHANGED <<elapsed, lookupFailed>>

\* The loop gives up only after a lookup that did not raise.
ProbePollIgnoresTimeoutOnFailure ==
    /\ Alive
    /\ probePc = "poll"
    /\ IF elapsed < TimeoutTicks \/ lookupFailed
       THEN PollFound \/ PollNotYet \/ PollRaises
       ELSE PollTimeout
    /\ commitAt' = 0
    /\ UNCHANGED <<monitorVars, lock, table_idx, table, committed, cleanups,
                   probesReturned, cleanupFailed, countsVars, mainVars, otherVars>>

\* One turn of "while time.time() - insert_time < timeout": the lookup, then
\* either the marker is found or the tick sleeps poll_interval. When the commit
\* returned is followed no further than the first turn.
ProbePoll ==
    /\ Alive
    /\ probePc = "poll"
    /\ IF elapsed < TimeoutTicks
       THEN PollFound \/ PollNotYet \/ PollRaises
       ELSE PollTimeout
    /\ commitAt' = 0
    /\ UNCHANGED <<monitorVars, lock, table_idx, table, committed, cleanups,
                   probesReturned, cleanupFailed, countsVars, mainVars, otherVars>>

\* The newest sample of a history.
Newest1(h) == h[Len(h)]

\* An exception of the DELETE reaches the caller and costs the probe its result.
CleanupProbeRaises ==
    /\ Alive
    /\ probePc = "cleanup"
    /\ cleanups' = IF HasDelete(table) THEN cleanups + 1 ELSE cleanups
    /\ \E raised \in BOOLEAN : cleanupFailed' = raised
    /\ probesReturned' = probesReturned + 1
    /\ visible' = FALSE
    /\ visibleAt' = 0
    /\ lateStart' = FALSE
    /\ lookupFailed' = FALSE
    /\ probePc' = "rec_acquire"
    /\ latency' = IF cleanupFailed' THEN None ELSE latency
    /\ UNCHANGED <<monitorVars, lock, table_idx, table, elapsed, outcome,
                   committed, probeConns, countsVars, mainVars, otherVars, commitAt>>

\* cleanup_probe, then probe_latency returns. cleanups counts the delete
\* attempts: calls of cleanup_probe for a table whose dispatch has a DELETE
\* (the attempt may fail at connect, execute or commit; all are swallowed).
\* cleanup_probe's own connection is opened and dropped within the call.
\* What the stores did during the poll loop is forgotten at the return.
CleanupProbe ==
    /\ Alive
    /\ probePc = "cleanup"
    /\ cleanups' = IF HasDelete(table) THEN cleanups + 1 ELSE cleanups
    /\ \E raised \in BOOLEAN : cleanupFailed' = raised
    /\ probesReturned' = probesReturned + 1
    /\ visible' = FALSE
    /\ visibleAt' = 0
    /\ lateStart' = FALSE
    /\ lookupFailed' = FALSE
    /\ probePc' = "rec_acquire"
    /\ UNCHANGED <<monitorVars, lock, table_idx, table, elapsed, latency, outcome,
                   committed, probeConns, countsVars, mainVars, otherVars, commitAt>>

\* The except clause returns None without storing the error.
ProbeExceptSilent ==
    /\ Alive
    /\ probePc = "except"
    /\ UNCHANGED error_message
    /\ latency' = None
    /\ outcome' = "error"
    /\ probesReturned' = probesReturned + 1
    /\ probeConns' = {}
    /\ probePc' = "rec_acquire"
    /\ UNCHANGED <<running, tables, total_probes, successful_probes, failed_probes,
                   last_update, lock, table_idx, table, elapsed, pollGhosts, committed,
                   cleanups, cleanupFailed, countsVars, mainVars, otherVars, commitAt>>

\* The exception leaves probe_latency and ends the probe thread.
ProbeExceptEndsThread ==
    /\ Alive
    /\ probePc = "except"
    /\ lock = "none"
    /\ error_message' = "error"
    /\ latency' = None
    /\ outcome' = "error"
    /\ probesReturned' = probesReturned + 1
    /\ probeConns' = {}
    /\ probePc' = "done"
    /\ UNCHANGED <<running, tables, total_probes, successful_probes, failed_probes,
                   last_update, lock, table_idx, table, elapsed, pollGhosts, committed,
                   cleanups, cleanupFailed, countsVars, mainVars, otherVars, commitAt>>

\* except Exception as e: with state.lock: state.error_message = str(e); return None
\* The return drops the locals; a connection they held is not closed by it.
ProbeExcept ==
    /\ Alive
    /\ probePc = "except"
    /\ lock = "none"
    /\ error_message' = "error"
    /\ latency' = None
    /\ outcome' = "error"
    /\ probesReturned' = probesReturned + 1
    /\ probeConns' = {}
    /\ probePc' = "rec_acquire"
    /\ UNCHANGED <<running, tables, total_probes, successful_probes, failed_probes,
                   last_update, lock, table_idx, table, elapsed, pollGhosts, committed,
                   cleanups, cleanupFailed, countsVars, mainVars, otherVars, commitAt>>

\* with state.lock:
RecAcquire ==
    /\ Alive
    /\ probePc = "rec_acquire"
    /\ lock = "none"
    /\ lock' = "probe"
    /\ cleanupFailed' = FALSE
    /\ probePc' = "rec_total"
    /\ UNCHANGED <<monitorVars, table_idx, table, elapsed, pollGhosts, latency, outcome,
                   committed, cleanups, probesReturned, probeConns, countsVars, mainVars,
                   otherVars, commitAt>>

\* state.total_probes += 1
RecTotal ==
    /\ Alive
    /\ probePc = "rec_total"
    /\ total_probes' = total_probes + 1
    /\ probePc' = "rec_count"
    /\ UNCHANGED <<running, tables, successful_probes, failed_probes, last_update,
                   error_message, lock, table_idx, table, elapsed, pollGhosts, latency,
                   outcome, committed, cleanups, cleanupFailed, probesReturned, countsVars, mainVars, probeConns, otherVars, commitAt>>

\* RecCount with the else branch lost: a failed probe is counted in
\* total_probes only.
RecCountSkipsFailed ==
    /\ Alive
    /\ probePc = "rec_count"
    /\ IF latency # None
       THEN /\ successful_probes' = successful_probes + 1
            /\ UNCHANGED failed_probes
       ELSE /\ UNCHANGED <<successful_probes, failed_probes>>
    /\ probePc' = "rec_table"
    /\ UNCHANGED <<running, tables, total_probes, last_update, error_message, lock,
                   table_idx, table, elapsed, pollGhosts, latency, outcome, committed, cleanups, cleanupFailed,
                   probesReturned, countsVars, mainVars, probeConns, otherVars, commitAt>>

\* state.successful_probes += 1 / state.failed_probes += 1
RecCount ==
    /\ Alive
    /\ probePc = "rec_count"
    /\ IF latency # None
       THEN /\ successful_probes' = successful_probes + 1
            /\ UNCHANGED failed_probes
       ELSE /\ failed_probes' = failed_probes + 1
            /\ UNCHANGED successful_probes
    /\ probePc' = "rec_table"
    /\ UNCHANGED <<running, tables, total_probes, last_update, error_message, lock,
                   table_idx, table, elapsed, pollGhosts, latency, outcome, committed, cleanups, cleanupFailed,
                   probesReturned, countsVars, mainVars, probeConns, otherVars, commitAt>>

\* A failed probe leaves last_latency_ms as the last success wrote it.
RecTableKeepsLatencyOnFailure ==
    /\ Alive
    /\ probePc = "rec_table"
    /\ tables' =
          [tables EXCEPT ![table] =
             IF latency # None
             THEN [@ EXCEPT !.last_latency_ms = latency,
                            !.latency_history = DequeAppend(@, latency)]
             ELSE @]
    /\ lock' = "none"
    /\ probePc' = "sleep"
    /\ UNCHANGED <<running, total_probes, successful_probes, failed_probes,
                   last_update, error_message, table_idx, table, elapsed, pollGhosts, latency,
                   outcome, committed, cleanups, cleanupFailed, probesReturned, countsVars, mainVars, probeConns, otherVars, commitAt>>

\* A failed probe puts its sentinel into the history as well.
RecTableAppendsSentinel ==
    /\ Alive
    /\ probePc = "rec_table"
    /\ tables' =
          [tables EXCEPT ![table] =
             IF latency # None
             THEN [@ EXCEPT !.last_latency_ms = latency,
                            !.latency_history = DequeAppend(@, latency)]
             ELSE [@ EXCEPT !.last_latency_ms = FailedLatency,
                            !.latency_history = DequeAppend(@, FailedLatency)]]
    /\ lock' = "none"
    /\ probePc' = "sleep"
    /\ UNCHANGED <<running, total_probes, successful_probes, failed_probes,
                   last_update, error_message, table_idx, table, elapsed, pollGhosts, latency,
                   outcome, committed, cleanups, cleanupFailed, probesReturned, countsVars, mainVars, probeConns, otherVars, commitAt>>

\* last_latency_ms and latency_history of the probed table; the with block
\* ends and the lock is released.
RecTable ==
    /\ Alive
    /\ probePc = "rec_table"
    /\ tables' =
          [tables EXCEPT ![table] =
             IF latency # None
             THEN [@ EXCEPT !.last_latency_ms = latency,
                            !.latency_history = DequeAppend(@, latency)]
             ELSE [@ EXCEPT !.last_latency_ms = FailedLatency]]
    /\ lock' = "none"
    /\ probePc' = "sleep"
    /\ UNCHANGED <<running, total_probes, successful_probes, failed_probes,
                   last_update, error_message, table_idx, table, elapsed, pollGhosts, latency,
                   outcome, committed, cleanups, cleanupFailed, probesReturned, countsVars, mainVars, probeConns, otherVars, commitAt>>

\* time.sleep(interval); the locals of the probe that was recorded are dead.
ProbeSleep ==
    /\ Alive
    /\ probePc = "sleep"
    /\ probePc' = "top"
    /\ elapsed' = 0
    /\ latency' = None
    /\ outcome' = "none"
    /\ committed' = FALSE
    /\ cleanups' = 0
    /\ UNCHANGED <<monitorVars, lock, table_idx, table, probesReturned, pollGhosts,
                   cleanupFailed, countsVars, mainVars, probeConns, otherVars, commitAt>>

ProbeNext ==
    \/ ProbeTop
    \/ ProbeInsert
    \/ ProbePoll
    \/ CleanupProbe
    \/ ProbeExcept
    \/ RecAcquire
    \/ RecTotal
    \/ RecCount
    \/ RecTable
    \/ ProbeSleep

\* ---------------------------------------------------- counts_update_thread
\* while state.running: get_table_counts(state)
CountsTop ==
    /\ Alive
    /\ countsPc = "top"
    /\ IF running
       THEN /\ passes < MaxPasses
            /\ passes' = passes + 1
            /\ countsPc' = "connect"
       ELSE /\ countsPc' = "done"
            /\ UNCHANGED passes
    /\ UNCHANGED <<monitorVars, lock, probeVars, ti, before, failedTable, answered,
                   mainVars, countsConns, otherVars>>

\* get_mysql_connection() and get_starrocks_connection() of get_table_counts
CountsConnect ==
    /\ Alive
    /\ countsPc = "connect"
    /\ \/ /\ countsPc' = "acquire"
          /\ countsConns' = {"source", "sink"}
       \/ \* one of the two raises after its third attempt; when it is the
          \* second, the source connection is open
          /\ countsPc' = "except"
          /\ \E opened \in BOOLEAN :
                countsConns' = IF opened THEN {"source"} ELSE {}
    /\ UNCHANGED <<monitorVars, lock, probeVars, ti, passes, before,
                   failedTable, answered, mainVars, otherVars>>

\* with state.lock: for table in TABLES:
CountsAcquire ==
    /\ Alive
    /\ countsPc = "acquire"
    /\ lock = "none"
    /\ lock' = "counts"
    /\ ti' = 1
    /\ countsPc' = "query_mysql"
    /\ UNCHANGED <<monitorVars, probeVars, passes, before, failedTable,
                   answered, mainVars, countsConns, otherVars>>

\* The loop moves to the next table; after the last one the with block ends
\* and the lock is released.
CountsAdvance ==
    IF ti < Len(TABLES)
    THEN /\ ti' = ti + 1
         /\ countsPc' = "query_mysql"
         /\ UNCHANGED lock
    ELSE /\ countsPc' = "close"
         /\ lock' = "none"
         /\ UNCHANGED ti

\* A source query that raises ends the table loop of the pass.
CountsQueryMysqlBreaks ==
    /\ Alive
    /\ countsPc = "query_mysql"
    /\ before' = Counts(tables[TABLES[ti]])
    /\ \/ \* the query raises: except Exception: pass
          /\ failedTable' = TABLES[ti]
          /\ countsPc' = "close"
          /\ lock' = "none"
          /\ UNCHANGED <<ti, tables>>
       \/ \E c \in SourceCounts :
             /\ tables' = [tables EXCEPT ![TABLES[ti]].mysql_count = c]
             /\ failedTable' = "none"
             /\ countsPc' = "query_starrocks"
             /\ UNCHANGED <<ti, lock>>
    /\ UNCHANGED <<running, total_probes, successful_probes, failed_probes,
                   last_update, error_message, probeVars, passes, answered,
                   mainVars, countsConns, otherVars>>

\* mysql_cursor.execute(COUNT(*)); state.tables[table].mysql_count = fetchone()[0]
CountsQueryMysql ==
    /\ Alive
    /\ countsPc = "query_mysql"
    /\ before' = Counts(tables[TABLES[ti]])
    /\ \/ \* the query raises: except Exception: pass
          /\ failedTable' = TABLES[ti]
          /\ CountsAdvance
          /\ UNCHANGED tables
       \/ \E c \in SourceCounts :
             /\ tables' = [tables EXCEPT ![TABLES[ti]].mysql_count = c]
             /\ failedTable' = "none"
             /\ countsPc' = "query_starrocks"
             /\ UNCHANGED <<ti, lock>>
    /\ UNCHANGED <<running, total_probes, successful_probes, failed_probes,
                   last_update, error_message, probeVars, passes, answered,
                   mainVars, countsConns, otherVars>>

\* sr_cursor.execute(COUNT(*)); starrocks_count = fetchone()[0]; lag = mysql - starrocks
CountsQueryStarrocks ==
    /\ Alive
    /\ countsPc = "query_starrocks"
    /\ \/ \* the query raises: except Exception: pass
          /\ failedTable' = TABLES[ti]
          /\ UNCHANGED <<tables, before, answered>>
       \/ \E c \in RowCounts :
             /\ tables' = [tables EXCEPT
                             ![TABLES[ti]].starrocks_count = c,
                             ![TABLES[ti]].lag = tables[TABLES[ti]].mysql_count - c]
             /\ before' = Counts(TableStats)
             /\ answered' = <<TABLES[ti], tables[TABLES[ti]].mysql_count, c>>
             /\ UNCHANGED failedTable
    /\ CountsAdvance
    /\ UNCHANGED <<running, total_probes, successful_probes, failed_probes,
                   last_update, error_message, probeVars, passes, mainVars, countsConns, otherVars>>

\* the four close() calls; get_table_counts returns and the pass is over
CountsClose ==
    /\ Alive
    /\ countsPc = "close"
    /\ countsPc' = "update"
    /\ ti' = 1
    /\ before' = Counts(TableStats)
    /\ failedTable' = "none"
    /\ answered' = NoAnswer
    /\ countsConns' = {}
    /\ UNCHANGED <<monitorVars, lock, probeVars, passes, mainVars, otherVars>>

\* The except clause of get_table_counts drops the error.
CountsExceptSilent ==
    /\ Alive
    /\ countsPc = "except"
    /\ UNCHANGED error_message
    /\ countsPc' = "update"
    /\ countsConns' = {}
    /\ UNCHANGED <<running, tables, total_probes, successful_probes, failed_probes,
                   last_update, lock, probeVars, ti, passes, before,
                   failedTable, answered, mainVars, otherVars>>

\* except Exception as e: with state.lock: state.error_message = str(e)
\* The return drops the locals; a connection they held is not closed by it.
CountsExcept ==
    /\ Alive
    /\ countsPc = "except"
    /\ lock = "none"
    /\ error_message' = "error"
    /\ countsPc' = "update"
    /\ countsConns' = {}
    /\ UNCHANGED <<running, tables, total_probes, successful_probes, failed_probes,
                   last_update, lock, probeVars, ti, passes, before,
                   failedTable, answered, mainVars, otherVars>>

\* with state.lock: state.last_update = time.time(); then sleep(interval).
\* The clock is read as the number of the pass that just ended.
CountsUpdate ==
    /\ Alive
    /\ countsPc = "update"
    /\ lock = "none"
    /\ last_update' = passes
    /\ countsPc' = "top"
    /\ UNCHANGED <<running, tables, total_probes, successful_probes, failed_probes,
                   error_message, lock, probeVars, ti, passes, before,
                   failedTable, answered, countsConns, mainVars, otherVars>>

CountsNext ==
    \/ CountsTop
    \/ CountsConnect
    \/ CountsAcquire
    \/ CountsQueryMysql
    \/ CountsQueryStarrocks
    \/ CountsClose
    \/ CountsExcept
    \/ CountsUpdate

\* ------------------------------------------------------------- main thread
\* signal_handler: state.running = False (no lock taken)
SignalHandler ==
    /\ Alive
    /\ running
    /\ running' = FALSE
    /\ UNCHANGED <<tables, total_probes, successful_probes, failed_probes,
                   last_update, error_message, lock, probeVars, countsVars,
                   mainVars, otherVars>>

\* display_dashboard: "while state.running:" and the header, which reads
\* total_probes and successful_probes without taking the lock. hdrTorn tells
\* whether the counters it read were in the middle of an update.
DisplayHeader ==
    /\ mainPc = "display"
    /\ IF running
       THEN /\ hdrTorn' = (total_probes # successful_probes + failed_probes)
            /\ mainPc' = "display_tables"
       ELSE /\ mainPc' = "join_probe"
            /\ UNCHANGED hdrTorn
    /\ UNCHANGED <<monitorVars, lock, probeVars, countsVars, checkVars, otherVars>>

\* the three "with state.lock:" blocks of one dashboard refresh: the table
\* rows, the overall figures, and the error message, which is cleared.
DisplayTables ==
    /\ mainPc = "display_tables"
    /\ lock = "none"
    /\ error_message' = ""
    /\ hdrTorn' = FALSE
    /\ mainPc' = "display"
    /\ UNCHANGED <<running, tables, total_probes, successful_probes, failed_probes,
                   last_update, lock, probeVars, countsVars, checkVars, otherVars>>

\* state.running = False; probe_thread.join(timeout=2): the join returns when
\* the thread has ended or when the timeout has passed, whichever comes first.
JoinProbe ==
    /\ mainPc = "join_probe"
    /\ \/ probePc = "done"     \* the thread has ended
       \/ probePc # "done"     \* it has not, and the two seconds have passed
    /\ running' = FALSE
    /\ mainPc' = "join_counts"
    /\ UNCHANGED <<tables, total_probes, successful_probes, failed_probes,
                   last_update, error_message, lock, probeVars, countsVars,
                   hdrTorn, checkVars, otherVars>>

\* counts_thread.join(timeout=2); print("Monitor stopped.")
JoinCounts ==
    /\ mainPc = "join_counts"
    /\ \/ countsPc = "done"    \* the thread has ended
       \/ countsPc # "done"    \* it has not, and the two seconds have passed
    /\ mainPc' = "stopped"
    /\ UNCHANGED <<monitorVars, lock, probeVars, countsVars, hdrTorn, checkVars, otherVars>>

\* main returns; the interpreter exits and the daemon threads end where they are.
ProcessExit ==
    /\ mainPc = "stopped"
    /\ mainPc' = "exited"
    /\ UNCHANGED <<monitorVars, lock, probeVars, countsVars, hdrTorn, checkVars, otherVars>>

MainNext ==
    \/ DisplayHeader
    \/ DisplayTables
    \/ JoinProbe
    \/ JoinCounts
    \/ ProcessExit

Next ==
    \/ ProbeNext
    \/ CountsNext
    \/ SignalHandler
    \/ MainNext

Spec == Init /\ [][Next]_vars

\* ------------------------------------------- one table probed for a long time
\* The latency the k-th successful probe of the run measures.
Sample(k) == (k * 37) % 53

\* The monitor started with one table (-t orders): one iteration of the probe
\* thread up to the return of probe_latency, which either measured the next
\* latency or failed.
HistProbe ==
    /\ probePc = "top"
    /\ running
    /\ table' = TABLES[1]
    /\ table_idx' = table_idx + 1
    /\ \/ /\ successful_probes < MaxSamples
          /\ latency' = Sample(successful_probes + 1)
          /\ outcome' = "found"
       \/ /\ failed_probes < MaxFailedSamples
          /\ latency' = None
          /\ outcome' = "timeout"
    /\ probesReturned' = probesReturned + 1
    /\ probePc' = "rec_acquire"
    /\ UNCHANGED <<monitorVars, lock, elapsed, committed, cleanups, pollGhosts,
                   cleanupFailed, countsVars, mainVars, probeConns, otherVars, commitAt>>

HistNext ==
    \/ HistProbe
    \/ RecAcquire
    \/ RecTotal
    \/ RecCount
    \/ RecTable
    \/ ProbeSleep

SpecHistory == Init /\ [][HistNext]_vars

\* ------------------------------------------------- the probe thread on its own
\* latency_probe_thread over more than one round of the table list, with the
\* signal handler; the counts thread and the dashboard stand still.
ProbeTopRounds == ProbeTopUpTo(MaxRounds)

ProbeThreadNext ==
    \/ ProbeTopRounds
    \/ ProbeInsert
    \/ ProbePoll
    \/ CleanupProbe
    \/ ProbeExcept
    \/ RecAcquire
    \/ RecTotal
    \/ RecCount
    \/ RecTable
    \/ ProbeSleep
    \/ SignalHandler

SpecProbeThread == Init /\ [][ProbeThreadNext]_vars

\* Every store call returns and the thread is scheduled: the probe thread
\* takes its next step whenever it has one.
FairProbeThread ==
    /\ SpecProbeThread
    /\ WF_vars(\/ ProbeTopRounds \/ ProbeInsert \/ ProbePoll \/ CleanupProbe
               \/ ProbeExcept \/ RecAcquire \/ RecTotal \/ RecCount \/ RecTable
               \/ ProbeSleep)

\* ------------------------------------------- the statistics functions on a list
\* Lists of n samples: 1..n in ascending and in descending order, and an
\* unsorted list with repeated values.
Ascending(n) == [i \in 1..n |-> i]

Descending(n) == [i \in 1..n |-> n + 1 - i]

Scrambled(n) == [i \in 1..n |-> Sample(i)]

SampleLists ==
    UNION {{Ascending(n), Descending(n), Scrambled(n)} : n \in 0..MaxListLen}

InitFunctions ==
    /\ InitMonitor
    /\ samples \in SampleLists
    /\ returned = <<>>
    /\ InitBenchmark
    /\ InitModes

\* The four properties of a TableStats whose history holds the samples; a
\* history never holds more than its maxlen.
ApplyTableStats ==
    /\ returned = <<>>
    /\ Len(samples) <= HistoryMaxLen
    /\ LET ts == [TableStats EXCEPT !.latency_history = samples]
       IN  returned' = [of |-> "TableStats", avg |-> avg_latency(ts),
                        min |-> min_latency(ts), max |-> max_latency(ts),
                        p95 |-> p95_latency(ts)]
    /\ UNCHANGED <<monitorVars, lock, probeVars, countsVars, mainVars, samples,
                   benchVars, modeVars>>

\* The two methods of the benchmark's Stats whose latencies are the samples.
ApplyStats ==
    /\ returned = <<>>
    /\ LET st == [Stats EXCEPT !.latencies = samples]
       IN  returned' = [of |-> "Stats", avg |-> Stats_avg_latency(st),
                        p99 |-> Stats_p99_latency(st)]
    /\ UNCHANGED <<monitorVars, lock, probeVars, countsVars, mainVars, samples,
                   benchVars, modeVars>>

FunctionsNext == ApplyTableStats \/ ApplyStats

SpecFunctions == InitFunctions /\ [][FunctionsNext]_vars

\* ------------------------------------- the benchmark: worker_single_table, Stats
monitorSide == <<monitorVars, lock, probeVars, countsVars, mainVars, fnVars>>

\* run_per_table_benchmark: the duration is over (or Ctrl+C): stop_event.set()
BenchStop ==
    /\ ~stop_event
    /\ stop_event' = TRUE
    /\ UNCHANGED <<monitorSide, modeVars, stats, statsLock, workerPc, count, workerRead,
                   rowsCommitted, insertCalls, errorCalls>>

\* worker_single_table up to its loop: the connection and the id queries. An
\* exception here ends the worker.
WorkerStart(w) ==
    /\ workerPc[w] = "start"
    /\ \E ok \in BOOLEAN :
          workerPc' = [workerPc EXCEPT ![w] = IF ok THEN "loop" ELSE "dead"]
    /\ UNCHANGED <<monitorSide, modeVars, stop_event, stats, statsLock, count, workerRead,
                   rowsCommitted, insertCalls, errorCalls>>

\* while not stop_event.is_set(): count += 1; after the loop the cursor and
\* the connection are closed.
WorkerLoop(w) ==
    /\ workerPc[w] = "loop"
    /\ IF stop_event
       THEN /\ workerPc' = [workerPc EXCEPT ![w] = "done"]
            /\ UNCHANGED count
       ELSE /\ count[w] < MaxRecords
            /\ count' = [count EXCEPT ![w] = @ + 1]
            /\ workerPc' = [workerPc EXCEPT ![w] = "insert"]
    /\ UNCHANGED <<monitorSide, modeVars, stop_event, stats, statsLock, workerRead,
                   rowsCommitted, insertCalls, errorCalls>>

\* The INSERT of the worker's table and conn.commit(): either both return and
\* the row is committed, or one of them raises.
WorkerInsert(w) ==
    /\ workerPc[w] = "insert"
    /\ \/ /\ rowsCommitted' = [rowsCommitted EXCEPT ![WorkerTable(w)] = @ + 1]
          /\ workerPc' = [workerPc EXCEPT ![w] = "ri_acquire"]
       \/ /\ workerPc' = [workerPc EXCEPT ![w] = "re_acquire"]
          /\ UNCHANGED rowsCommitted
    /\ UNCHANGED <<monitorSide, modeVars, stop_event, stats, statsLock, count, workerRead,
                   insertCalls, errorCalls>>

\* record_insert runs without taking the lock.
RecordInsertNoLock(w) ==
    /\ workerPc[w] = "ri_acquire"
    /\ workerPc' = [workerPc EXCEPT ![w] = "ri_read"]
    /\ UNCHANGED <<monitorSide, modeVars, stop_event, stats, statsLock, count, workerRead,
                   rowsCommitted, insertCalls, errorCalls>>

\* Stats.record_insert: with self.lock:
RecordInsertAcquire(w) ==
    /\ workerPc[w] = "ri_acquire"
    /\ statsLock = NoWorker
    /\ statsLock' = w
    /\ workerPc' = [workerPc EXCEPT ![w] = "ri_read"]
    /\ UNCHANGED <<monitorSide, modeVars, stop_event, stats, count, workerRead,
                   rowsCommitted, insertCalls, errorCalls>>

\* self.inserts[table] += 1, the read
RecordInsertRead(w) ==
    /\ workerPc[w] = "ri_read"
    /\ workerRead' = [workerRead EXCEPT ![w] = stats.inserts[WorkerTable(w)]]
    /\ workerPc' = [workerPc EXCEPT ![w] = "ri_write"]
    /\ UNCHANGED <<monitorSide, modeVars, stop_event, stats, statsLock, count,
                   rowsCommitted, insertCalls, errorCalls>>

\* self.inserts[table] += 1, the write; the value read is dead after it.
RecordInsertWrite(w) ==
    /\ workerPc[w] = "ri_write"
    /\ stats' = [stats EXCEPT !.inserts[WorkerTable(w)] = workerRead[w] + 1]
    /\ insertCalls' = [insertCalls EXCEPT ![WorkerTable(w)] = @ + 1]
    /\ workerRead' = [workerRead EXCEPT ![w] = 0]
    /\ workerPc' = [workerPc EXCEPT ![w] = "ri_append"]
    /\ UNCHANGED <<monitorSide, modeVars, stop_event, statsLock, count, rowsCommitted,
                   errorCalls>>

\* self.latencies.append(latency_ms); the with block ends. The latency the
\* worker measured is a sample that depends on the number of the record.
RecordInsertAppend(w) ==
    /\ workerPc[w] = "ri_append"
    /\ stats' = [stats EXCEPT !.latencies = Append(@, Sample(count[w]))]
    /\ statsLock' = IF statsLock = w THEN NoWorker ELSE statsLock
    /\ workerPc' = [workerPc EXCEPT ![w] = "loop"]
    /\ UNCHANGED <<monitorSide, modeVars, stop_event, count, workerRead, rowsCommitted,
                   insertCalls, errorCalls>>

\* Stats.record_error: with self.lock:
RecordErrorAcquire(w) ==
    /\ workerPc[w] = "re_acquire"
    /\ statsLock = NoWorker
    /\ statsLock' = w
    /\ workerPc' = [workerPc EXCEPT ![w] = "re_read"]
    /\ UNCHANGED <<monitorSide, modeVars, stop_event, stats, count, workerRead,
                   rowsCommitted, insertCalls, errorCalls>>

\* self.errors[table] += 1, the read
RecordErrorRead(w) ==
    /\ workerPc[w] = "re_read"
    /\ workerRead' = [workerRead EXCEPT ![w] = stats.errors[WorkerTable(w)]]
    /\ workerPc' = [workerPc EXCEPT ![w] = "re_write"]
    /\ UNCHANGED <<monitorSide, modeVars, stop_event, stats, statsLock, count,
                   rowsCommitted, insertCalls, errorCalls>>

\* self.errors[table] += 1, the write; the value read is dead after it and the
\* with block ends.
RecordErrorWrite(w) ==
    /\ workerPc[w] = "re_write"
    /\ stats' = [stats EXCEPT !.errors[WorkerTable(w)] = workerRead[w] + 1]
    /\ errorCalls' = [errorCalls EXCEPT ![WorkerTable(w)] = @ + 1]
    /\ statsLock' = IF statsLock = w THEN NoWorker ELSE statsLock
    /\ workerRead' = [workerRead EXCEPT ![w] = 0]
    /\ workerPc' = [workerPc EXCEPT ![w] = "rollback"]
    /\ UNCHANGED <<monitorSide, modeVars, stop_event, count, rowsCommitted, insertCalls>>

\* conn.rollback() in the except clause: an exception of it ends the worker.
WorkerRollback(w) ==
    /\ workerPc[w] = "rollback"
    /\ \E ok \in BOOLEAN :
          workerPc' = [workerPc EXCEPT ![w] = IF ok THEN "loop" ELSE "dead"]
    /\ UNCHANGED <<monitorSide, modeVars, stop_event, stats, statsLock, count, workerRead,
                   rowsCommitted, insertCalls, errorCalls>>

BenchNext ==
    \/ BenchStop
    \/ \E w \in Workers :
          \/ WorkerStart(w)
          \/ WorkerLoop(w)
          \/ WorkerInsert(w)
          \/ RecordInsertAcquire(w)
          \/ RecordInsertRead(w)
          \/ RecordInsertWrite(w)
          \/ RecordInsertAppend(w)
          \/ RecordErrorAcquire(w)
          \/ RecordErrorRead(w)
          \/ RecordErrorWrite(w)
          \/ WorkerRollback(w)

SpecBenchmark == Init /\ [][BenchNext]_vars

\* ----------------------------------- the benchmark: worker_insert_batch, Stats
\* The workers run_parallel_benchmark submits.
ParallelWorkers == 1..2

\* Stats.record_insert as one step under the lock of Stats.
Stats_record_insert(st, t, latency_ms) ==
    [st EXCEPT !.inserts[t] = @ + 1, !.latencies = Append(@, latency_ms)]

\* self.errors[table] += 1 raises KeyError for a key the dictionary lacks.
KeyError == "KeyError"

\* Stats.record_error as one step under the lock of Stats: the new Stats, or
\* the exception it raises.
Stats_record_error(st, t) ==
    IF t \in DOMAIN st.errors
    THEN [st EXCEPT !.errors[t] = @ + 1]
    ELSE KeyError

\* What the steps of worker_insert_batch leave alone.
parFrame ==
    <<monitorSide, burstVars, verifyVars, statsLock, count, workerRead,
      insertCalls, errorCalls>>

\* worker_insert_batch up to its loop: the connection, the cursor and the two
\* id queries. An exception here ends the worker.
BatchStart(w) ==
    /\ workerPc[w] = "start"
    /\ \/ /\ workerPc' = [workerPc EXCEPT ![w] = "batch_loop"]
          /\ workerConn' = [workerConn EXCEPT ![w] = "open"]
       \/ /\ workerPc' = [workerPc EXCEPT ![w] = "setup_failed"]
          /\ \E opened \in BOOLEAN :
                workerConn' = [workerConn EXCEPT
                                  ![w] = IF opened THEN "open" ELSE "none"]
    /\ UNCHANGED <<parFrame, stop_event, stats, rowsCommitted, batch_num,
                   batchRec, batchTab>>

\* while not stop_event.is_set(): batch_num += 1. The run is cut after
\* MaxBatches batches.
BatchLoop(w) ==
    /\ workerPc[w] = "batch_loop"
    /\ IF stop_event
       THEN /\ workerPc' = [workerPc EXCEPT ![w] = "batch_close"]
            /\ UNCHANGED <<batch_num, batchRec>>
       ELSE /\ batch_num[w] < MaxBatches
            /\ batch_num' = [batch_num EXCEPT ![w] = @ + 1]
            /\ batchRec' = [batchRec EXCEPT ![w] = 0]
            /\ workerPc' = [workerPc EXCEPT ![w] = "batch_record"]
    /\ UNCHANGED <<parFrame, stop_event, stats, rowsCommitted, batchTab,
                   workerConn>>

\* for _ in range(batch_size): if stop_event.is_set(): break
BatchRecord(w) ==
    /\ workerPc[w] = "batch_record"
    /\ IF batchRec[w] = BatchSize \/ stop_event
       THEN /\ workerPc' = [workerPc EXCEPT ![w] = "batch_loop"]
            /\ UNCHANGED batchTab
       ELSE /\ workerPc' = [workerPc EXCEPT ![w] = "batch_insert"]
            /\ batchTab' = [batchTab EXCEPT ![w] = 1]
    /\ UNCHANGED <<parFrame, stop_event, stats, rowsCommitted, batch_num,
                   batchRec, workerConn>>

\* The insert of the next table of the record and conn.commit(): either both
\* return and the row is committed, or one of them raises.
BatchInsert(w) ==
    /\ workerPc[w] = "batch_insert"
    /\ \/ /\ rowsCommitted' = [rowsCommitted EXCEPT ![TABLES[batchTab[w]]] = @ + 1]
          /\ workerPc' = [workerPc EXCEPT ![w] = "batch_recording"]
       \/ /\ workerPc' = [workerPc EXCEPT ![w] = "batch_except"]
          /\ UNCHANGED rowsCommitted
    /\ UNCHANGED <<parFrame, stop_event, stats, parVars>>

\* stats.record_insert(table, latency); after the last table of the record the
\* for loop goes on.
BatchRecordInsert(w) ==
    /\ workerPc[w] = "batch_recording"
    /\ statsLock = NoWorker
    /\ stats' = Stats_record_insert(stats, TABLES[batchTab[w]], Sample(batch_num[w]))
    /\ IF batchTab[w] < Len(TABLES)
       THEN /\ batchTab' = [batchTab EXCEPT ![w] = @ + 1]
            /\ workerPc' = [workerPc EXCEPT ![w] = "batch_insert"]
            /\ UNCHANGED batchRec
       ELSE /\ batchRec' = [batchRec EXCEPT ![w] = @ + 1]
            /\ workerPc' = [workerPc EXCEPT ![w] = "batch_record"]
            /\ UNCHANGED batchTab
    /\ UNCHANGED <<parFrame, stop_event, rowsCommitted, batch_num, workerConn>>

\* except Exception as e: stats.record_error('unknown'); print(...). When
\* record_error raises, the exception leaves the handler and the function.
BatchExcept(w) ==
    /\ workerPc[w] = "batch_except"
    /\ statsLock = NoWorker
    /\ LET st == Stats_record_error(stats, "unknown")
       IN  IF st = KeyError
           THEN /\ workerPc' = [workerPc EXCEPT ![w] = "raised"]
                /\ UNCHANGED stats
           ELSE /\ workerPc' = [workerPc EXCEPT ![w] = "batch_loop"]
                /\ stats' = st
    /\ UNCHANGED <<parFrame, stop_event, rowsCommitted, parVars>>

\* cursor.close(); conn.close()
BatchClose(w) ==
    /\ workerPc[w] = "batch_close"
    /\ workerConn' = [workerConn EXCEPT ![w] = "closed"]
    /\ workerPc' = [workerPc EXCEPT ![w] = "done"]
    /\ UNCHANGED <<parFrame, stop_event, stats, rowsCommitted, batch_num,
                   batchRec, batchTab>>

ParallelNext ==
    \/ BenchStop
    \/ \E w \in ParallelWorkers :
          \/ BatchStart(w)
          \/ BatchLoop(w)
          \/ BatchRecord(w)
          \/ BatchInsert(w)
          \/ BatchRecordInsert(w)
          \/ BatchExcept(w)
          \/ BatchClose(w)

SpecParallel == Init /\ [][ParallelNext]_vars

\* -------------------------------------- the benchmark: run_burst_benchmark
\* What the steps of run_burst_benchmark leave alone.
burstFrame ==
    <<monitorSide, parVars, verifyVars, statsLock, workerPc, count, workerRead,
      insertCalls, errorCalls>>

\* run_burst_benchmark up to its try: the connection, the cursor and the two
\* id queries. An exception here leaves the function.
BurstStart ==
    /\ burstPc = "start"
    /\ \/ /\ burstPc' = "burst_loop"
          /\ burstConn' = "open"
       \/ /\ burstPc' = "raised"
          /\ \E opened \in BOOLEAN :
                burstConn' = IF opened THEN "open" ELSE "none"
    /\ UNCHANGED <<burstFrame, stop_event, stats, rowsCommitted, burst, burstRec,
                   burstTab, pending>>

\* for burst in range(bursts): if stop_event.is_set(): break
BurstLoop ==
    /\ burstPc = "burst_loop"
    /\ IF burst = Bursts \/ stop_event
       THEN /\ burstPc' = "burst_close"
            /\ UNCHANGED <<burst, burstRec>>
       ELSE /\ burst' = burst + 1
            /\ burstRec' = 0
            /\ burstPc' = "burst_record"
    /\ UNCHANGED <<burstFrame, stop_event, stats, rowsCommitted, burstTab,
                   pending, burstConn>>

\* for i in range(records_per_burst): if stop_event.is_set(): break; after the
\* loop the progress line and the pause.
BurstRecord ==
    /\ burstPc = "burst_record"
    /\ IF burstRec = RecordsPerBurst \/ stop_event
       THEN /\ burstPc' = "burst_loop"
            /\ UNCHANGED burstTab
       ELSE /\ burstPc' = "burst_insert"
            /\ burstTab' = 1
    /\ UNCHANGED <<burstFrame, stop_event, stats, rowsCommitted, burst, burstRec,
                   pending, burstConn>>

\* The insert of the next table of the record, inside the open transaction;
\* an exception is no KeyboardInterrupt and leaves the function.
BurstInsert ==
    /\ burstPc = "burst_insert"
    /\ \/ /\ pending' = [pending EXCEPT ![TABLES[burstTab]] = @ + 1]
          /\ burstPc' = "burst_recording"
       \/ /\ burstPc' = "raised"
          /\ UNCHANGED pending
    /\ UNCHANGED <<burstFrame, stop_event, stats, rowsCommitted, burst, burstRec,
                   burstTab, burstConn>>

\* stats.record_insert(table, latency); after the last table of the record
\* comes the commit.
BurstRecordInsert ==
    /\ burstPc = "burst_recording"
    /\ statsLock = NoWorker
    /\ stats' = Stats_record_insert(stats, TABLES[burstTab], Sample(burst))
    /\ IF burstTab < Len(TABLES)
       THEN /\ burstTab' = burstTab + 1
            /\ burstPc' = "burst_insert"
       ELSE /\ burstPc' = "burst_commit"
            /\ UNCHANGED burstTab
    /\ UNCHANGED <<burstFrame, stop_event, rowsCommitted, burst, burstRec,
                   pending, burstConn>>

\* conn.commit(): the rows of the transaction are committed, or it raises and
\* the exception leaves the function.
BurstCommit ==
    /\ burstPc = "burst_commit"
    /\ \/ /\ rowsCommitted' = [t \in TableSet |-> rowsCommitted[t] + pending[t]]
          /\ pending' = [t \in TableSet |-> 0]
          /\ burstRec' = burstRec + 1
          /\ burstPc' = "burst_record"
       \/ /\ burstPc' = "raised"
          /\ UNCHANGED <<rowsCommitted, pending, burstRec>>
    /\ UNCHANGED <<burstFrame, stop_event, stats, burst, burstTab, burstConn>>

\* cursor.close(); conn.close(); stats.end_time = time.time()
BurstClose ==
    /\ burstPc = "burst_close"
    /\ burstConn' = "closed"
    /\ burstPc' = "done"
    /\ UNCHANGED <<burstFrame, stop_event, stats, rowsCommitted, burst, burstRec,
                   burstTab, pending>>

BurstNext ==
    \/ BenchStop
    \/ BurstStart
    \/ BurstLoop
    \/ BurstRecord
    \/ BurstInsert
    \/ BurstRecordInsert
    \/ BurstCommit
    \/ BurstClose

SpecBurst == Init /\ [][BurstNext]_vars

\* ------------------------------------ the benchmark: verify_cdc_sync
\* What get_table_counts(conn, tables) may return: per table the count the
\* query answered, or -1 when the query raised.
CountFailed == -1

get_table_counts(answers) == [TableSet -> answers \cup {CountFailed}]

\* all(sr_counts.get(t, 0) >= mysql_counts.get(t, 0) for t in TABLES)
AllCaughtUp(sr, my) == \A t \in TableSet : sr[t] >= my[t]

\* What the steps of verify_cdc_sync leave alone.
verifyFrame == <<monitorSide, benchVars, parVars, burstVars>>

\* The two connections and the source counts; a connection that cannot be
\* opened ends the function in its handler: return {'error': str(e)}.
VerifyStart ==
    /\ verifyPc = "start"
    /\ \/ /\ \E my \in get_table_counts(SourceCounts) : mysql_counts' = my
          /\ verifyPc' = "poll"
          /\ UNCHANGED result
       \/ /\ result' = [error |-> "error"]
          /\ verifyPc' = "done"
          /\ UNCHANGED mysql_counts
    /\ UNCHANGED <<verifyFrame, sr_counts, synced, polls>>

\* while time.time() - start < timeout: one poll of the sink counts, then the
\* comparison or the two seconds of sleep; the timeout is VerifyPolls polls.
VerifyPoll ==
    /\ verifyPc = "poll"
    /\ IF polls < VerifyPolls
       THEN \E sr \in get_table_counts(RowCounts) :
               /\ sr_counts' = sr
               /\ polls' = polls + 1
               /\ IF AllCaughtUp(sr, mysql_counts)
                  THEN /\ synced' = TRUE
                       /\ verifyPc' = "decided"
                  ELSE /\ verifyPc' = "poll"
                       /\ UNCHANGED synced
       ELSE /\ verifyPc' = "decided"
            /\ UNCHANGED <<sr_counts, synced, polls>>
    /\ UNCHANGED <<verifyFrame, mysql_counts, result>>

\* sr_conn.cursor() raises in get_table_counts: the handler returns the error.
VerifyRaises ==
    /\ verifyPc \in {"poll", "decided"}
    /\ result' = [error |-> "error"]
    /\ verifyPc' = "done"
    /\ UNCHANGED <<verifyFrame, mysql_counts, sr_counts, synced, polls>>

\* After the loop: the sink counts are read once more and the result is built.
VerifyResult ==
    /\ verifyPc = "decided"
    /\ \E sr \in get_table_counts(RowCounts) :
          /\ sr_counts' = sr
          /\ result' = [synced |-> synced, mysql |-> mysql_counts, starrocks |-> sr,
                        lag |-> [t \in TableSet |-> mysql_counts[t] - sr[t]]]
    /\ verifyPc' = "done"
    /\ UNCHANGED <<verifyFrame, mysql_counts, synced, polls>>

VerifyNext ==
    \/ VerifyStart
    \/ VerifyPoll
    \/ VerifyRaises
    \/ VerifyResult

SpecVerify == Init /\ [][VerifyNext]_vars

\* ------------------------------------------------------ check mode (check_once)
\* marker = f"probe_{int(time.time() * 1000)}_{os.getpid()}": the clock reading
\* truncated to whole milliseconds, and the process id, one for the whole run.
Marker(t) == <<"probe", t \div TicksPerMs, "pid">>

\* The wall clock advances; it does so on its own, whatever the program does.
Tick ==
    /\ now < MaxClock
    /\ now' = now + 1
    /\ UNCHANGED <<monitorVars, lock, probeVars, countsVars, mainPc, hdrTorn,
                   markers, results, otherVars>>

\* for table in tables: latency = probe_latency(state, table), up to the marker
\* probe_latency builds on entry. The loop calls one probe directly after the
\* other; nothing sleeps between them.
CheckOnceProbe ==
    /\ probePc = "top"
    /\ Len(results) < Len(TABLES)
    /\ table' = TABLES[Len(results) + 1]
    /\ markers' = Append(markers, Marker(now))
    /\ elapsed' = 0
    /\ latency' = None
    /\ outcome' = "none"
    /\ committed' = FALSE
    /\ cleanups' = 0
    /\ probePc' = "insert"
    /\ UNCHANGED <<monitorVars, lock, table_idx, probesReturned, pollGhosts,
                   cleanupFailed, countsVars, mainPc, hdrTorn, now, results, probeConns, otherVars, commitAt>>

\* results['tables'][table] = {'latency_ms': latency if latency else -1, ...}:
\* a measured latency is a positive float, so only None gives -1.
CheckOnceResult ==
    /\ probePc = "rec_acquire"
    /\ results' = Append(results, <<table, IF latency # None THEN latency ELSE -1>>)
    /\ cleanupFailed' = FALSE
    /\ probePc' = "top"
    /\ UNCHANGED <<monitorVars, lock, table_idx, table, elapsed, latency, outcome,
                   committed, cleanups, probesReturned, pollGhosts, probeConns,
                   countsVars, mainPc, hdrTorn, now, markers, otherVars, commitAt>>

CheckOnceNext ==
    \/ CheckOnceProbe
    \/ ProbeInsert
    \/ ProbePoll
    \/ CleanupProbe
    \/ ProbeExcept
    \/ CheckOnceResult
    \/ Tick

SpecCheckOnce == Init /\ [][CheckOnceNext]_vars

TypeOK ==
    /\ running \in BOOLEAN
    /\ lock \in {"none", "probe", "counts"}
    /\ total_probes \in 0..MaxProbes
    /\ successful_probes \in 0..MaxProbes
    /\ failed_probes \in 0..MaxProbes
    /\ elapsed \in 0..TimeoutTicks
    /\ latency \in {None} \cup 0..TimeoutTicks
    /\ ti \in 1..Len(TABLES)
    /\ table \in TableSet
    /\ visibleAt \in 0..TimeoutTicks
    /\ commitAt \in 0..TimeoutTicks

\* Thread scheduling: a runnable thread is eventually run. Steps that only
\* touch memory or take a free lock always finish; a store call may block for
\* ever, so no fairness is stated for the store-call actions.
ProbeMemoryStep ==
    \/ ProbeTop \/ ProbeExcept \/ RecAcquire \/ RecTotal \/ RecCount \/ RecTable
    \/ ProbeSleep

CountsMemoryStep ==
    CountsTop \/ CountsAcquire \/ CountsExcept \/ CountsUpdate

FairSpec ==
    /\ Spec
    /\ WF_vars(MainNext)
    /\ WF_vars(ProbeMemoryStep)
    /\ WF_vars(CountsMemoryStep)

\* A store call of probe_latency / cleanup_probe is in flight.
ProbeInStoreCall == Alive /\ probePc \in {"insert", "poll", "cleanup"}

\* A store call of get_table_counts is in flight.
CountsInStoreCall ==
    Alive /\ countsPc \in {"connect", "query_mysql", "query_starrocks", "close"}

\* probe_latency has returned and the probe thread is recording its result.
ProbeReturned == probePc \in {"rec_acquire", "rec_total", "rec_count", "rec_table"}

\* The probe thread has recorded the result of its probe and sleeps.
ProbeRecorded == probePc = "sleep"

\* --------------------------------------------------------------- the claims

\* C1: whenever the lock is free, every table has lag = mysql_count -
\* starrocks_count and its two counts come from the same reconciliation pass
\* (a table the latest pass failed on still shows what it showed before).
C1_LagFromOnePass ==
    lock = "none" =>
        \A t \in TableSet :
            /\ tables[t].lag = tables[t].mysql_count - tables[t].starrocks_count
            /\ (t = failedTable => Counts(tables[t]) = before)

\* C2: a table whose source or sink count query failed in a pass keeps the
\* mysql_count, starrocks_count and lag it had before that pass.
C2_FailedTableKeepsCounts ==
    failedTable # "none" => Counts(tables[failedTable]) = before

\* C3: no thread holds the state lock while one of its store calls is in flight.
C3_NoLockAcrossStoreCall ==
    /\ ~(lock = "probe" /\ ProbeInStoreCall)
    /\ ~(lock = "counts" /\ CountsInStoreCall)

\* C4: a probe that committed its marker row has made exactly one cleanup
\* delete attempt by the time it returns, whatever its outcome.
C4_CommittedProbeCleansUpOnce ==
    (ProbeReturned /\ committed) => cleanups = 1

\* C5: a probe that ran into the timeout returned None, is recorded with
\* last_latency_ms = -1 as a failed probe, and attempted its cleanup delete.
C5_TimeoutRecordedFailedAndCleaned ==
    (ProbeRecorded /\ outcome = "timeout") =>
        /\ latency = None
        /\ tables[table].last_latency_ms = FailedLatency
        /\ failed_probes >= 1
        /\ total_probes = successful_probes + failed_probes
        /\ cleanups = 1

\* The part of C5 the code does keep: the same for a table that has statements.
TimeoutOfStatementTable ==
    (ProbeRecorded /\ outcome = "timeout" /\ HasDelete(table)) =>
        /\ latency = None
        /\ tables[table].last_latency_ms = FailedLatency
        /\ failed_probes >= 1
        /\ cleanups = 1

\* C6: whenever the lock is free, total_probes is the number of probes recorded
\* so far (every probe that returned, less the one still waiting to be
\* recorded) and equals successful_probes + failed_probes.
C6_ProbeCountersExact ==
    lock = "none" =>
        /\ total_probes = successful_probes + failed_probes
        /\ total_probes =
              probesReturned - (IF probePc = "rec_acquire" THEN 1 ELSE 0)

\* C6 witness: one successful and one failed probe recorded, lock free.
C6_Witness ==
    /\ lock = "none"
    /\ total_probes = 2
    /\ successful_probes = 1
    /\ failed_probes = 1

\* C7: every access to MonitorState is made under the lock, so no reader sees
\* a partially applied update: the dashboard never reads the probe counters
\* while total_probes # successful_probes + failed_probes.
C7_ReadersSeeWholeUpdates == ~hdrTorn

\* C8: once main has reported "Monitor stopped." no background thread changes
\* MonitorState any more.
C8_NoMutationAfterStopped ==
    [][(mainPc \in {"stopped", "exited"}) => UNCHANGED statsVars]_vars

\* C9: a thread never ends with its current probe or reconciliation pass cut
\* short: when the process has exited each thread had left its loop or was
\* between two iterations.
C9_NoOperationCutShort ==
    mainPc = "exited" =>
        /\ probePc \in {"sleep", "top", "done"}
        /\ countsPc \in {"top", "done"}

\* C10: once stop has been requested main always gets to "Monitor stopped.",
\* even if a background thread stays inside a store call.
C10_ShutdownCompletes ==
    (~running) ~> (mainPc \in {"stopped", "exited"})

\* The part of C10 the code does keep: once main has left the display loop the
\* two joins let it through, whatever the background threads are doing.
ShutdownAfterDisplayLoop ==
    (mainPc = "join_probe") ~> (mainPc \in {"stopped", "exited"})

\* A turn of the poll loop that ran its lookup: the marker was found, or the
\* tick slept poll_interval.
LookupStep ==
    /\ probePc = "poll"
    /\ (elapsed' = elapsed + 1 \/ outcome' = "found")

\* C11: the stop flag is checked at every poll tick: once running is false a
\* probe in flight runs no further turn of its poll loop.
C11_StopEndsPolling ==
    [][LookupStep => running]_vars

\* What the code does keep of C11: both task loops read the flag at the top of
\* every iteration, so no probe and no pass starts once it is false.
NoIterationStartsStopped ==
    [][/\ (probePc = "top" /\ probePc' = "insert") => running
       /\ (countsPc = "top" /\ countsPc' = "connect") => running]_vars

\* The samples appended so far to the history of the table SpecHistory probes:
\* one per successful probe recorded.
Appended ==
    successful_probes - (IF probePc = "rec_table" /\ latency # None THEN 1 ELSE 0)

\* The newest HistoryMaxLen of the first n samples, in arrival order.
Newest(n) ==
    LET m == IF n < HistoryMaxLen THEN n ELSE HistoryMaxLen
    IN  [i \in 1..m |-> Sample(n - m + i)]

\* C12: a table's latency history never holds more than 100 samples; it is
\* always the newest (at most 100) of the samples appended, in arrival order,
\* and avg/min/max/p95 are those of exactly these samples.
C12_HistoryIsNewestHundred ==
    LET ts == tables[TABLES[1]]
        h == ts.latency_history
        newest == [ts EXCEPT !.latency_history = Newest(Appended)]
    IN  /\ \A t \in TableSet : Len(tables[t].latency_history) <= HistoryMaxLen
        /\ h = Newest(Appended)
        /\ avg_latency(ts) = avg_latency(newest)
        /\ min_latency(ts) = min_latency(newest)
        /\ max_latency(ts) = max_latency(newest)
        /\ p95_latency(ts) = p95_latency(newest)

\* C12 witness: two samples more than the capacity were appended and the two
\* oldest are gone.
C12_Witness ==
    /\ probePc = "sleep"
    /\ Appended = HistoryMaxLen + 2
    /\ Len(tables[TABLES[1]].latency_history) = HistoryMaxLen
    /\ tables[TABLES[1]].latency_history[1] = Sample(3)

C14_SourceFailureFailsProbe ==
    /\ [](outcome = "source_failed" =>
             /\ probePc = "except"
             /\ ~committed
             /\ elapsed = 0
             /\ ~lookupFailed)
    /\ [][(probePc = "except" /\ probePc' # "except") =>
             /\ probePc' = "rec_acquire"
             /\ latency' = None
             /\ error_message' = "error"]_vars
    /\ []((ProbeRecorded /\ outcome = "error") =>
             /\ latency = None
             /\ failed_probes >= 1
             /\ tables[table].last_latency_ms = FailedLatency)

\* C14 witness: a probe of orders failed before anything was committed and is
\* recorded, the error message still on display.
C14_Witness ==
    /\ ProbeRecorded
    /\ outcome = "error"
    /\ HasInsert(table)
    /\ ~committed
    /\ failed_probes = 1
    /\ tables[table].last_latency_ms = FailedLatency
    /\ error_message = "error"

\* C15: a sink lookup that raises does not abort the probe: the probe stays in
\* its poll loop and leaves it only by finding the marker, which gives a
\* latency and a successful record, or by the timeout.
C15_LookupFailureIsRetried ==
    /\ lookupFailed => probePc \in {"poll", "cleanup"}
    /\ (lookupFailed /\ probePc = "cleanup") =>
           /\ outcome \in {"found", "timeout"}
           /\ outcome = "timeout" => (latency = None /\ elapsed >= TimeoutTicks)
           /\ outcome = "found" => (latency = elapsed /\ latency < TimeoutTicks)
    /\ (ProbeRecorded /\ outcome = "found") =>
           /\ successful_probes >= 1
           /\ tables[table].last_latency_ms = latency

\* C15 witness: a lookup raised and a later lookup of the same probe found the
\* marker.
C15_Witness ==
    /\ probePc = "cleanup"
    /\ lookupFailed
    /\ outcome = "found"
    /\ latency >= 1

\* C16: a probe makes at most one cleanup attempt, and a cleanup that raised
\* changes nothing of the probe's result: a probe that found the marker still
\* returns the latency it measured and is recorded as a success.
C16_CleanupFailureIsIgnored ==
    /\ cleanups <= 1
    /\ (probePc = "rec_acquire" /\ cleanupFailed) =>
           /\ outcome \in {"found", "timeout"}
           /\ outcome = "found" => (latency # None /\ latency = elapsed)
           /\ outcome = "timeout" => latency = None
    /\ (ProbeRecorded /\ outcome = "found") =>
           /\ cleanups = 1
           /\ successful_probes >= 1
           /\ tables[table].last_latency_ms = latency
           /\ latency # None

\* C16 witness: the probe found the marker, its one cleanup attempt raised, and
\* it has returned its latency.
C16_Witness ==
    /\ probePc = "rec_acquire"
    /\ cleanupFailed
    /\ outcome = "found"
    /\ cleanups = 1
    /\ latency # None

\* C17: no failure of a probe or of a pass ends a task loop: a background
\* thread has left its loop only if running is false.
C17_FailuresDoNotEndLoops ==
    /\ probePc = "done" => ~running
    /\ countsPc = "done" => ~running

\* C17 witness: the first probe failed and was recorded, the first pass wrote
\* no count, and with running still true the probe thread is in its second
\* iteration and the counts thread is back at the top of its loop.
C17_Witness ==
    /\ running
    /\ failed_probes = 1
    /\ table_idx = 2
    /\ probePc = "insert"
    /\ countsPc = "top"
    /\ passes = 1
    /\ \A t \in TableSet : Counts(tables[t]) = Counts(TableStats)

\* C18: a pass that cannot connect handles no table and changes no table's
\* counts or lag; its except clause stores the error message and returns, and
\* the counts thread goes on to last_update and the top of its loop.
C18_ConnectFailureSkipsPass ==
    /\ [](countsPc = "except" =>
             /\ lock # "counts"
             /\ ti = 1
             /\ failedTable = "none"
             /\ answered = NoAnswer)
    /\ [][(countsPc \in {"connect", "except", "update"}) =>
             \A t \in TableSet : Counts(tables'[t]) = Counts(tables[t])]_vars
    /\ [][(countsPc = "except" /\ countsPc' # "except") =>
             /\ countsPc' = "update"
             /\ error_message' = "error"]_vars
    /\ [][(countsPc = "update" /\ countsPc' # "update") => countsPc' = "top"]_vars

\* C18 witness: the first pass failed to connect before any probe had run; its
\* error message is stored, every count is as constructed, and the pass is over.
C18_Witness ==
    /\ countsPc = "update"
    /\ passes = 1
    /\ table_idx = 0
    /\ error_message = "error"
    /\ \A t \in TableSet : Counts(tables[t]) = Counts(TableStats)

\* C19: a count query that raises for one table does not end the pass: the
\* source query of the next table follows; and a table both of whose queries
\* returned has exactly the two counts returned and their difference as lag.
C19_LaterTablesStillUpdated ==
    /\ (failedTable # "none" /\ failedTable # TABLES[Len(TABLES)]) =>
           /\ countsPc = "query_mysql"
           /\ lock = "counts"
           /\ ti > 1
           /\ TABLES[ti - 1] = failedTable
    /\ answered # NoAnswer =>
           Counts(tables[answered[1]]) =
               <<answered[2], answered[3], answered[2] - answered[3]>>

\* C19 witness: in the first pass the queries of the first table failed and
\* the second table has its counts and lag written.
C19_Witness ==
    /\ passes = 1
    /\ countsPc = "close"
    /\ Counts(tables[TABLES[1]]) = Counts(TableStats)
    /\ answered # NoAnswer
    /\ answered[1] = TABLES[2]
    /\ tables[TABLES[2]].mysql_count \in RowCounts
    /\ tables[TABLES[2]].lag =
           tables[TABLES[2]].mysql_count - tables[TABLES[2]].starrocks_count

\* C20: within a probe no sink lookup is issued before the INSERT of the marker
\* was committed: the poll loop of a table that has a lookup is entered, and a
\* lookup answered or raised, only with the row committed.
C20_NoLookupBeforeCommit ==
    HasLookup(table) =>
        /\ probePc = "poll" => committed
        /\ (visible \/ lookupFailed \/ outcome = "found") => committed

\* C20 witness: a lookup of a probe of orders has found the committed marker.
C20_Witness ==
    /\ probePc = "cleanup"
    /\ HasLookup(table)
    /\ outcome = "found"
    /\ committed

\* C21: the k-th probe of the probe thread (k counted from 0) targets
\* tables[k mod len(tables)] whatever the earlier probes returned; each loop
\* iteration starts exactly one probe, after all earlier ones have returned,
\* and the loop top is reached again only from the interval sleep that follows
\* the recording of a probe.
C21_RoundRobin ==
    /\ [](probePc \notin {"top", "done"} =>
            /\ table = TABLES[((table_idx - 1) % Len(TABLES)) + 1]
            /\ probesReturned \in {table_idx - 1, table_idx})
    /\ [][(probePc' = "insert" /\ probePc # "insert") =>
            /\ probePc = "top"
            /\ table_idx' = table_idx + 1
            /\ probesReturned = table_idx]_vars
    /\ [][(probePc' = "top" /\ probePc # "top") =>
            /\ probePc = "sleep"
            /\ total_probes = table_idx
            /\ probesReturned = table_idx]_vars

\* The third probe is back at the first table although an earlier probe failed.
C21_Witness ==
    /\ probePc = "insert"
    /\ table_idx = Len(TABLES) + 1
    /\ table = TABLES[1]
    /\ failed_probes >= 1
    /\ total_probes = Len(TABLES)

\* C22: any two probes started by one monitor process carry distinct markers,
\* also when they follow one another within the same millisecond of the clock.
C22_MarkersDistinct ==
    \A i \in DOMAIN markers : \A j \in DOMAIN markers :
        i # j => markers[i] # markers[j]

\* C23: when a probe or a reconciliation pass returns, every store connection
\* it opened has been closed, on every path (insert failure, sink connection
\* failure and query failure included).
C23_ConnectionsClosedAtReturn ==
    [][/\ (probePc \in {"except", "cleanup"} /\ probePc' = "rec_acquire") =>
             probeConns = {}
       /\ (countsPc = "except" /\ countsPc' = "update") => countsConns = {}
       /\ (countsPc = "close" /\ countsPc' = "update") => countsConns' = {}]_vars

\* C24: for an empty latency history avg_latency, min_latency, max_latency and
\* p95_latency return 0 and do not raise, and so do Stats.avg_latency and
\* Stats.p99_latency of the benchmark for an empty latency list.
C24_EmptyHistoryGivesZero ==
    (samples = <<>> /\ returned # <<>>) =>
        \/ returned = [of |-> "TableStats", avg |-> 0, min |-> 0, max |-> 0, p95 |-> 0]
        \/ returned = [of |-> "Stats", avg |-> 0, p99 |-> 0]

\* The properties of a TableStats with an empty history have been evaluated.
C24_Witness ==
    /\ samples = <<>>
    /\ returned # <<>>
    /\ returned.of = "TableStats"

\* The 0-based index floor(n * pct / 100), clamped to n - 1, of the samples
\* sorted in ascending order.
PercentileOf(s, pct) ==
    LET n == Len(s)
        k == (n * pct) \div 100
    IN  SortSeq(s, LAMBDA a, b : a < b)[(IF k < n - 1 THEN k ELSE n - 1) + 1]

\* C25: for a non-empty history of length n, p95_latency returns the element
\* at 0-based index min(floor(n * 95 / 100), n - 1) of the samples sorted in
\* ascending order, 96 for the values 1..100; Stats.p99_latency does the same
\* with 99.
C25_PercentileIndex ==
    (samples # <<>> /\ returned # <<>>) =>
        /\ returned.of = "TableStats" =>
              /\ returned.p95 = PercentileOf(samples, 95)
              /\ samples = Ascending(100) => returned.p95 = 96
        /\ returned.of = "Stats" => returned.p99 = PercentileOf(samples, 99)

\* p95 of the values 1..100, inserted in descending order.
C25_Witness ==
    /\ samples = Descending(100)
    /\ returned # <<>>
    /\ returned.of = "TableStats"
    /\ returned.p95 = 96

\* C26: for every table of the monitored list a probe executes one source
\* insert carrying the marker before it commits, and each poll tick issues a
\* sink lookup on the marker: a probe in its poll loop has committed a marker
\* row, and its table has a lookup statement.
C26_EveryTableIsProbed ==
    probePc = "poll" => (committed /\ HasLookup(table))

\* C27: the insert timestamp from which the latency and the timeout budget
\* are measured is taken after the source insert has been executed and
\* committed: no commit returns later than insert_time, so the time a probe
\* has measured when it enters the poll loop holds none of the insert's and
\* the commit's duration.
C27_TimestampAfterCommit ==
    probePc = "poll" => commitAt = 0

\* C28: every probe terminates with exactly one outcome, a latency or the
\* timeout/failure outcome. The time since insert never passes the timeout
\* inside the poll loop; the turn of the loop that finds the timeout reached
\* leaves the loop with the timeout outcome, also when lookups have raised; a
\* probe that has returned has either a latency or None; and, store calls
\* returning, a probe that was started returns.
C28_ProbeTerminatesWithOneOutcome ==
    /\ [](probePc = "poll" => elapsed <= TimeoutTicks)
    /\ [][(probePc = "poll" /\ elapsed >= TimeoutTicks /\ probePc' # "poll") =>
            /\ probePc' = "cleanup"
            /\ outcome' = "timeout"
            /\ latency' = None]_vars
    /\ [][(probePc = "poll" /\ elapsed >= TimeoutTicks) =>
            elapsed' = elapsed]_vars
    /\ [](ProbeReturned =>
            \/ outcome = "found" /\ latency \in 0..(TimeoutTicks - 1)
            \/ outcome \in {"timeout", "error"} /\ latency = None)
    /\ [](probesReturned \in {table_idx - 1, table_idx})
    /\ (probePc = "insert") ~> (probePc = "rec_acquire")

\* A probe all of whose lookups raised has left the loop at the timeout.
C28_Witness ==
    /\ probePc = "cleanup"
    /\ outcome = "timeout"
    /\ lookupFailed
    /\ HasLookup(table)
    /\ ~visible
    /\ elapsed = TimeoutTicks

\* C29: once the running flag has been cleared it stays cleared, no task
\* passes its loop-top check again (no further probe and no further pass is
\* started, so each task finishes at most the iteration it was in), and a
\* task that comes to its loop top leaves the loop.
C29_NoIterationAfterStop ==
    /\ [][~running => ~running']_vars
    /\ [][~running => (table_idx' = table_idx /\ passes' = passes)]_vars
    /\ [][(~running /\ probePc # "insert") => probePc' # "insert"]_vars
    /\ [][(~running /\ countsPc # "connect") => countsPc' # "connect"]_vars
    /\ [][(~running /\ probePc = "top" /\ probePc' # "top") => probePc' = "done"]_vars
    /\ [][(~running /\ countsPc = "top" /\ countsPc' # "top") => countsPc' = "done"]_vars
    /\ [](probePc = "done" \/ countsPc = "done" => ~running)

\* The flag is cleared, the counts thread has left its loop and the probe
\* thread is finishing the probe it was in.
C29_Witness ==
    /\ Alive
    /\ ~running
    /\ countsPc = "done"
    /\ passes = 1
    /\ probePc = "rec_table"
    /\ table_idx = 1

\* The sum of a per-table counter over the tables.
SumOverTables(f) ==
    SumTo([i \in 1..Len(TABLES) |-> f[TABLES[i]]], Len(TABLES))

\* C30: under every interleaving of the workers, inserts[table] is the number
\* of record_insert calls made for the table (a call counts once it has
\* written), errors[table] the number of record_error calls for it, and
\* len(latencies) the sum of the insert counts, less the calls that have
\* counted and not yet appended.
C30_StatsCountsEveryCall ==
    /\ \A t \in TableSet :
          /\ stats.inserts[t] = insertCalls[t]
          /\ stats.errors[t] = errorCalls[t]
    /\ Len(stats.latencies) =
          SumOverTables(stats.inserts)
            - Cardinality({w \in Workers : workerPc[w] = "ri_append"})
    /\ Cardinality({w \in Workers : workerPc[w] = "ri_append"}) <= 1

\* Both workers of one table have recorded an insert and a worker of the
\* other table an error.
C30_Witness ==
    /\ stats.inserts[TABLES[1]] = workers_per_table
    /\ stats.errors[TABLES[2]] >= 1
    /\ stats.inserts[TABLES[2]] >= 1
    /\ Len(stats.latencies) = workers_per_table + 1
    /\ statsLock = NoWorker

\* C31: for each table the length of the latency history is min(100, number
\* of successful probes recorded for the table); the recording of a failed
\* probe leaves every history as it is, so no history holds the -1 sentinel
\* and min, max and p95 are never the sentinel.
C31_HistoryCountsSuccessesOnly ==
    /\ [](\A t \in TableSet :
            LET h == tables[t].latency_history
                n == IF t = TABLES[1] THEN Appended ELSE 0
            IN  /\ Len(h) = (IF n < HistoryMaxLen THEN n ELSE HistoryMaxLen)
                /\ \A i \in DOMAIN h : h[i] # FailedLatency
                /\ min_latency(tables[t]) # FailedLatency
                /\ max_latency(tables[t]) # FailedLatency
                /\ p95_latency(tables[t]) # FailedLatency)
    /\ [][(probePc = "rec_table" /\ latency = None) =>
            \A t \in TableSet :
                tables'[t].latency_history = tables[t].latency_history]_vars

\* A failed probe has just been recorded on a full history that has already
\* dropped a sample.
C31_Witness ==
    /\ probePc = "sleep"
    /\ latency = None
    /\ failed_probes = 1
    /\ successful_probes = HistoryMaxLen + 1
    /\ Len(tables[TABLES[1]].latency_history) = HistoryMaxLen
    /\ tables[TABLES[1]].last_latency_ms = FailedLatency

\* The probes whose result has been written to their table (total_probes runs
\* ahead by one between its increment and that write).
Recorded ==
    IF probePc \in {"rec_count", "rec_table"} THEN total_probes - 1 ELSE total_probes

\* Those of them that probed table t: the probe thread goes round the list.
RecordedFor(t) ==
    Cardinality({k \in 0..(Recorded - 1) : TABLES[(k % Len(TABLES)) + 1] = t})

\* C32: with the lock free, a table's last_latency_ms is 0 if no probe of the
\* table has been recorded, -1 if and only if the probe of the table recorded
\* last failed, and otherwise the newest sample of the table's history. The
\* value is written only by the step that records a probe, for the probed
\* table: -1 for a failed probe, the latency just appended for a successful one.
C32_LastLatencyFollowsLastProbe ==
    /\ [](lock = "none" =>
            \A t \in TableSet :
               LET ts == tables[t]
               IN  /\ RecordedFor(t) = 0 => ts.last_latency_ms = 0
                   /\ ts.last_latency_ms = FailedLatency => RecordedFor(t) > 0
                   /\ (RecordedFor(t) > 0 /\ ts.last_latency_ms # FailedLatency) =>
                         /\ ts.latency_history # <<>>
                         /\ ts.last_latency_ms = Newest1(ts.latency_history))
    /\ [][(probePc = "rec_table" /\ probePc' = "sleep") =>
            /\ (latency = None) <=> (tables'[table].last_latency_ms = FailedLatency)
            /\ latency # None =>
                  /\ tables'[table].last_latency_ms = latency
                  /\ Newest1(tables'[table].latency_history) = latency
            /\ \A t \in TableSet \ {table} :
                  tables'[t].last_latency_ms = tables[t].last_latency_ms]_vars
    /\ [][~(probePc = "rec_table" /\ probePc' = "sleep") =>
            \A t \in TableSet :
               /\ tables'[t].last_latency_ms = tables[t].last_latency_ms
               /\ tables'[t].latency_history = tables[t].latency_history]_vars

\* The lock is free; the first table's last probe succeeded and the second
\* table's failed.
C32_Witness ==
    /\ lock = "none"
    /\ probePc = "sleep"
    /\ table = TABLES[2]
    /\ tables[TABLES[2]].last_latency_ms = FailedLatency
    /\ tables[TABLES[1]].latency_history # <<>>
    /\ tables[TABLES[1]].last_latency_ms = Newest1(tables[TABLES[1]].latency_history)
    /\ tables[TABLES[1]].mysql_count \in SourceCounts

\* The threads run and their store calls return, and a thread blocked in
\* lock.acquire() gets the lock when it is free again and again (every holder
\* sleeps or prints after its release): strong fairness of every thread's steps.
FairLockSpec ==
    /\ Spec
    /\ SF_vars(ProbeNext)
    /\ SF_vars(CountsNext)
    /\ SF_vars(MainNext)

\* The thread stands at a 'with state.lock:' while another thread holds the lock.
ProbeWaitsForLock == probePc \in {"except", "rec_acquire"} /\ lock = "counts"

CountsWaitsForLock == countsPc \in {"acquire", "except", "update"} /\ lock = "probe"

MainWaitsForLock == mainPc = "display_tables" /\ lock # "none"

\* The thread has entered the with block it stood at.
ProbeAcquired == probePc \notin {"except", "rec_acquire"} \/ lock = "probe"

CountsAcquired == countsPc \notin {"acquire", "except", "update"} \/ lock = "counts"

MainAcquired == mainPc # "display_tables"

\* The lock is held exactly while its holder is inside a with block: no thread
\* stands at a with statement holding the lock, and every way out of a block,
\* exceptions included, has released it.
LockHeldOnlyInsideWith ==
    /\ lock = "probe" <=> probePc \in {"rec_total", "rec_count", "rec_table"}
    /\ lock = "counts" <=> countsPc \in {"query_mysql", "query_starrocks"}
    /\ lock \in {"none", "probe", "counts"}

\* While the process lives no thread waits for the lock for ever.
NoDeadlockWhileAlive ==
    /\ []LockHeldOnlyInsideWith
    /\ ProbeWaitsForLock ~> (ProbeAcquired \/ ~Alive)
    /\ CountsWaitsForLock ~> (CountsAcquired \/ ~Alive)
    /\ MainWaitsForLock ~> MainAcquired

Stats_total_errors(st) == SumOverTables(st.errors)

\* C34: a worker of the parallel mode that hits an insert or commit error
\* records the error in Stats and goes on with the next batch; a worker that
\* has entered its loop ends only once the stop event is set, and then with
\* its cursor and connection closed.
C34_WorkerSurvivesErrors ==
    /\ [][\A w \in ParallelWorkers :
            (workerPc[w] = "batch_except" /\ workerPc'[w] # "batch_except") =>
               /\ Stats_total_errors(stats') = Stats_total_errors(stats) + 1
               /\ workerPc'[w] = "batch_loop"]_vars
    /\ [](\A w \in ParallelWorkers :
            workerPc[w] \in {"done", "raised"} =>
               /\ stop_event
               /\ workerConn[w] = "closed")

\* C35: the insert count Stats reports for a table never exceeds the number of
\* rows the benchmark has committed to the table: an insert is counted only
\* once its commit has succeeded.
C35_InsertsAreCommitted ==
    \A t \in TableSet : stats.inserts[t] <= rowsCommitted[t]

\* C36: verify_cdc_sync leaves its loop with synced = true only if at the
\* deciding poll every table had its source count and its sink count read
\* (neither is -1) and the sink count was at least the source count; the
\* result carries the same flag.
C36_SyncedNeedsBothCounts ==
    /\ (verifyPc = "decided" /\ synced) =>
          \A t \in TableSet :
             /\ mysql_counts[t] # CountFailed
             /\ sr_counts[t] # CountFailed
             /\ sr_counts[t] >= mysql_counts[t]
    /\ (verifyPc = "done" /\ "synced" \in DOMAIN result /\ result.synced) =>
          \A t \in TableSet : result.mysql[t] # CountFailed

====
